---------------------------- MODULE Spec2Model ----------------------------
(***************************************************************************)
(* The client-side offline action queue of the reading-fluency library     *)
(* (src/src/lib/offline/queue.ts, class OfflineActionQueue) together with  *)
(* the part of the network manager the scheduler reads                     *)
(* (src/src/lib/performance/network.ts).                                   *)
(*                                                                         *)
(* One action of the model is one run-to-completion step of the event      *)
(* loop: a public call (enqueue, dequeue, clear, retryFailed,              *)
(* stopProcessing), one timer tick of processQueue up to the point where   *)
(* the dispatched executor calls are awaited, the resolution of one        *)
(* awaited executor call, a network event, or a restart of the process.    *)
(***************************************************************************)
EXTENDS Integers, Sequences, FiniteSets, TLC

(***************************************************************************)
(* Bounds.  uuidv7() is modelled by a counter: the n-th identifier that is *)
(* generated is n.  MaxIds bounds the number of identifiers generated in   *)
(* one behaviour of the queue store on its own.                            *)
(***************************************************************************)
MaxIds == 3

\* the same bound for the behaviours in which the scheduler runs
MaxSchedIds == 2

\* A reload is considered while no stored record has a retryCount above
\* this bound: reloads forget which records failed, so that retryCount
\* grows without limit over them.
MaxRetryCount == 1

\* the bound on identifiers for the behaviours with reloads
MaxReloadIds == 2

\* the same bound for the behaviours with a listener
MaxListenIds == 2

\* the same bound for the behaviours under fair scheduling
MaxLiveIds == 3

\* the same bound for the behaviours in which one tick dispatches several
\* records
MaxBatchIds == 3

\* the same bound for the behaviours in which storage writes fail
MaxQuotaIds == 2

\* the same bound for the behaviours with malformed requests
MaxInputIds == 3

\* the longest array of fluency records handed to mergeRecords
MaxMergeLen == 2

\* Identifiers uuidv7 hands out while duplicates of differing priority are
\* enqueued; enqueue draws two for a duplicate, so three let a manual
\* duplicate follow a first record.
MaxOrderIds == 3

(***************************************************************************)
(* Payloads.  A payload is a JSON-like value.  An object is the sequence   *)
(* of its own properties in insertion order; a property value may be the   *)
(* JavaScript value undefined.  Strings keep their text in lit.            *)
(***************************************************************************)
Undefined == "undefined"

Obj(props) == [kind |-> "object", lit |-> "", props |-> props]

Str(s) == [kind |-> "string", lit |-> s, props |-> <<>>]

Prop(k, v) == [k |-> k, v |-> v]

ObjA1 == Obj(<<Prop("a", "1")>>)

ObjB2 == Obj(<<Prop("b", "2")>>)

ObjA1Bu == Obj(<<Prop("a", "1"), Prop("b", Undefined)>>)

ObjA1B2 == Obj(<<Prop("a", "1"), Prop("b", "2")>>)

StrS == Str("s")

\* typeof payload
typeOf(p) == IF p.kind \in {"object", "null"} THEN "object" ELSE p.kind

\* JSON.stringify(payload): properties whose value is undefined are dropped,
\* the others are written in insertion order.  The text is represented by
\* the value it denotes, so two texts are equal iff these values are equal.
JSONstringify(p) ==
    IF p.kind = "object"
    THEN Obj(SelectSeq(p.props, LAMBDA kv : kv.v # Undefined))
    ELSE p

\* { ...e, ...n } for two values of typeof "object"
Spread(e, n) ==
    LET ep == e.props
        np == n.props
        has(ps, k) == \E j \in 1..Len(ps) : ps[j].k = k
        val(ps, k) == ps[CHOOSE j \in 1..Len(ps) : ps[j].k = k].v
        upd == [i \in 1..Len(ep) |->
                   IF has(np, ep[i].k) THEN Prop(ep[i].k, val(np, ep[i].k))
                                       ELSE ep[i]]
    IN  Obj(upd \o SelectSeq(np, LAMBDA kv : ~has(ep, kv.k)))


(***************************************************************************)
(* Requests: the argument of enqueue, a QueuedAction minus id, timestamp   *)
(* and retryCount.  An absent dependencies field and an empty list behave  *)
(* alike in areDependenciesMet and are both written <<>>.                  *)
(***************************************************************************)
Req(ty, ac, st, pl, pr, mr, deps, cr) ==
    [type |-> ty, action |-> ac, studentId |-> st, payload |-> pl,
     priority |-> pr, maxRetries |-> mr, dependencies |-> deps,
     conflictResolution |-> cr]

\* The requests issued to the queue store on its own: every conflict
\* policy, every priority, payloads that are objects (equal, JSON-equal and
\* different) and a string, two owners, two action names, three types.
Requests ==
    { Req("fluency-record", "addFluencyRecord", "s1", ObjA1, "normal", 2, <<>>, "skip"),
      Req("fluency-record", "addFluencyRecord", "s1", ObjA1Bu, "normal", 2, <<>>, "overwrite"),
      Req("fluency-record", "addFluencyRecord", "s1", ObjB2, "normal", 2, <<>>, "merge"),
      Req("fluency-record", "addFluencyRecord", "s1", ObjA1, "high", 1, <<>>, "merge"),
      Req("fluency-record", "addFluencyRecord", "s1", StrS, "low", 0, <<>>, "merge"),
      Req("fluency-record", "addFluencyRecord", "s1", ObjA1, "critical", 2, <<>>, "manual"),
      Req("fluency-record", "addFluencyRecord", "s2", ObjA1, "high", 1, <<1>>, "skip"),
      Req("fluency-record", "other", "s1", ObjA1, "low", 1, <<>>, "skip"),
      Req("library-action", "addFluencyRecord", "s1", ObjA1, "low", 1, <<2>>, "overwrite"),
      Req("convex-mutation", "addFluencyRecord", "s1", ObjB2, "critical", 1, <<>>, "manual") }

\* The requests issued while the scheduler runs: an awaited executor with
\* two attempts and one with none, the type without an executor and the
\* executor that only logs, each of these two with a dependency.
SchedRequests ==
    { Req("fluency-record", "addFluencyRecord", "s1", ObjA1, "normal", 2, <<>>, "skip"),
      Req("fluency-record", "addFluencyRecord", "s1", ObjA1Bu, "low", 0, <<>>, "overwrite"),
      Req("library-action", "addFluencyRecord", "s1", ObjA1, "high", 1, <<2>>, "skip"),
      Req("convex-mutation", "addFluencyRecord", "s1", ObjB2, "critical", 1, <<1>>, "skip") }

\* The requests issued while a listener may be registered: a policy that
\* adds a record for a duplicate, one that rewrites it, and the executor
\* that settles within the tick.
ListenRequests ==
    { Req("fluency-record", "addFluencyRecord", "s1", ObjA1, "normal", 1, <<>>, "manual"),
      Req("fluency-record", "addFluencyRecord", "s1", ObjA1Bu, "high", 1, <<>>, "overwrite"),
      Req("convex-mutation", "addFluencyRecord", "s1", ObjB2, "low", 1, <<>>, "merge") }

\* The requests issued in the behaviours with reloads: a payload that JSON
\* writes differently, a retry budget of one and of none, a dependency.
ReloadRequests ==
    { Req("fluency-record", "addFluencyRecord", "s1", ObjA1Bu, "normal", 1, <<>>, "overwrite"),
      Req("session-update", "updateSession", "s2", ObjB2, "high", 0, <<1>>, "manual") }

\* The requests issued under fair scheduling: no dependencies, and only
\* types that have an executor.
LiveRequests ==
    { Req("fluency-record", "addFluencyRecord", "s1", ObjA1, "normal", 2, <<>>, "skip"),
      Req("session-update", "updateSession", "s2", ObjB2, "high", 1, <<>>, "manual"),
      Req("convex-mutation", "addFluencyRecord", "s1", ObjB2, "critical", 1, <<>>, "overwrite") }

\* The requests dispatched together: two awaited executors, the type without
\* an executor and the executor that only logs, none with a dependency.
BatchRequests ==
    { Req("fluency-record", "addFluencyRecord", "s1", ObjA1, "normal", 2, <<>>, "skip"),
      Req("session-update", "updateSession", "s2", ObjB2, "high", 1, <<>>, "skip"),
      Req("library-action", "addFluencyRecord", "s1", ObjA1, "low", 1, <<>>, "skip"),
      Req("convex-mutation", "addFluencyRecord", "s1", ObjB2, "critical", 1, <<>>, "skip") }

\* The requests issued while storage writes fail, all of the type whose
\* executor completes within the tick: one that skips a duplicate, one that
\* rewrites it, one that adds a record for it.
QuotaRequests ==
    { Req("convex-mutation", "addFluencyRecord", "s1", ObjB2, "high", 1, <<>>, "skip"),
      Req("convex-mutation", "addFluencyRecord", "s1", ObjA1, "normal", 1, <<>>, "overwrite"),
      Req("convex-mutation", "addFluencyRecord", "s2", ObjA1, "low", 1, <<>>, "manual") }

\* The requests that differ in priority and meet as duplicates: the three
\* fluency records have one type, action, student and payload text, and
\* ask for skip, manual and overwrite; the mutation is a duplicate of itself
\* only and asks for merge.
OrderRequests ==
    { Req("fluency-record", "addFluencyRecord", "s1", ObjA1, "low", 1, <<>>, "skip"),
      Req("fluency-record", "addFluencyRecord", "s1", ObjA1, "critical", 1, <<>>, "manual"),
      Req("fluency-record", "addFluencyRecord", "s1", ObjA1Bu, "high", 1, <<>>, "overwrite"),
      Req("convex-mutation", "addFluencyRecord", "s2", ObjB2, "normal", 1, <<>>, "merge") }

\* The requests of callers that bypass the compile-time types: a negative
\* maxRetries, a type outside the union, next to a well-formed request.
InputRequests ==
    { Req("fluency-record", "addFluencyRecord", "s1", ObjA1, "normal", 1, <<>>, "skip"),
      Req("fluency-record", "addFluencyRecord", "s2", ObjB2, "high", 0 - 1, <<>>, "overwrite"),
      Req("bogus", "addFluencyRecord", "s1", ObjA1, "low", 1, <<>>, "manual") }

\* const queuedAction = { ...action, id: uuidv7(), timestamp: Date.now(), retryCount: 0 }
QueuedAction(req, id, t) ==
    [id |-> id, type |-> req.type, action |-> req.action,
     payload |-> req.payload, timestamp |-> t, retryCount |-> 0,
     maxRetries |-> req.maxRetries, priority |-> req.priority,
     studentId |-> req.studentId, dependencies |-> req.dependencies,
     conflictResolution |-> req.conflictResolution]

(***************************************************************************)
(* The fields of the queue object.  The operations below are functions     *)
(* from one value of these fields to the next.                             *)
(*   queue            the array of records                                 *)
(*   processing       Set<string>                                          *)
(*   failedActions    the keys of Map<string, Error>                       *)
(*   completedActions Set<string>                                          *)
(*   storage          the item "rbe.offline.queue" of localStorage         *)
(***************************************************************************)
NoStorage == [present |-> FALSE, queue |-> <<>>, completedActions |-> {}]

\* a bag of identifiers: a function from the identifiers in it to their counts
EmptyBag == [x \in {} |-> 0]

BagAdd(b, x) ==
    IF x \in DOMAIN b THEN [b EXCEPT ![x] = @ + 1]
    ELSE [y \in DOMAIN b \cup {x} |-> IF y = x THEN 1 ELSE b[y]]

BagRemove(b, x) ==
    IF b[x] > 1 THEN [b EXCEPT ![x] = @ - 1]
    ELSE [y \in DOMAIN b \ {x} |-> b[y]]

\* the number of elements of a bag
RECURSIVE BagSize(_)
BagSize(b) ==
    IF DOMAIN b = {} THEN 0
    ELSE LET x == CHOOSE y \in DOMAIN b : TRUE
         IN  b[x] + BagSize([y \in DOMAIN b \ {x} |-> b[y]])

\*   inFlight   the executor calls that are awaited: how many per identifier
\*   orphans    the record objects that only an awaited executor call still
\*              refers to, because the record left the queue array meanwhile
\*   listeners  TRUE while the callback of addListener is in this.listeners
\*   delivered  the stats the callback was called with during the step
\*   timeouts   the delays of the setTimeout calls made during the step; the
\*              callback of such a timer logs and changes no field
EmptyQueueState ==
    [queue |-> <<>>, processing |-> {}, failedActions |-> {},
     completedActions |-> {}, storage |-> NoStorage,
     inFlight |-> EmptyBag, orphans |-> {},
     listeners |-> FALSE, delivered |-> <<>>, timeouts |-> <<>>]

\* The outcomes of a localStorage.setItem call inside saveToStorage.
WriteOutcomes == {"ok", "quota", "quotaTwice", "error"}

\* JSON.stringify({ queue, completedActions, timestamp }) as stored
Snapshot(q, completed) ==
    [present |-> TRUE,
     queue |-> [i \in 1..Len(q) |-> [q[i] EXCEPT !.payload = JSONstringify(@)]],
     completedActions |-> completed]

\* a save that gives up at the first QuotaExceededError
saveToStorage_NoRetry(S, w) ==
    CASE w = "ok" ->
           [S EXCEPT !.storage = Snapshot(S.queue, S.completedActions)]
      [] w \in {"quota", "quotaTwice"} ->
           [S EXCEPT !.completedActions = {}]
      [] OTHER -> S

\* saveToStorage(): setItem succeeds; throws QuotaExceededError once and
\* then succeeds; throws it twice; throws another error
saveToStorage(S, w) ==
    CASE w = "ok" ->
           [S EXCEPT !.storage = Snapshot(S.queue, S.completedActions)]
      [] w = "quota" ->
           [S EXCEPT !.completedActions = {},
                     !.storage = Snapshot(S.queue, {})]
      [] w = "quotaTwice" ->
           [S EXCEPT !.completedActions = {}]
      [] OTHER -> S

\* the index in q of the record with this id, 0 when there is none
IndexOfId(q, id) ==
    IF \E i \in 1..Len(q) : q[i].id = id
    THEN CHOOSE i \in 1..Len(q) :
            q[i].id = id /\ \A j \in 1..(i - 1) : q[j].id # id
    ELSE 0

RemoveAt(q, i) == SubSeq(q, 1, i - 1) \o SubSeq(q, i + 1, Len(q))

QueueIds(q) == {q[i].id : i \in 1..Len(q)}

priorityOrder(p) ==
    CASE p = "critical" -> 4
      [] p = "high" -> 3
      [] p = "normal" -> 2
      [] p = "low" -> 1

\* a comparator with the priorities the wrong way round
Compare_Ascending(a, b) ==
    LET priorityDiff == priorityOrder(a.priority) - priorityOrder(b.priority)
    IN  IF priorityDiff # 0 THEN priorityDiff ELSE a.timestamp - b.timestamp

\* the comparator handed to Array.prototype.sort
Compare(a, b) ==
    LET priorityDiff == priorityOrder(b.priority) - priorityOrder(a.priority)
    IN  IF priorityDiff # 0 THEN priorityDiff ELSE a.timestamp - b.timestamp

\* Array.prototype.sort is stable: x goes behind every element that does not
\* compare greater than it.
InsertStable(sorted, x) ==
    LET greater == {i \in 1..Len(sorted) : Compare(sorted[i], x) > 0}
        at == IF greater = {} THEN Len(sorted) + 1
              ELSE CHOOSE i \in greater : \A j \in greater : i <= j
    IN  SubSeq(sorted, 1, at - 1) \o <<x>> \o SubSeq(sorted, at, Len(sorted))

RECURSIVE SortInto(_, _)
SortInto(sorted, rest) ==
    IF rest = <<>> THEN sorted
    ELSE SortInto(InsertStable(sorted, Head(rest)), Tail(rest))

sortQueueByPriority(q) == SortInto(<<>>, q)

\* the index of the first structural duplicate of action in q, 0 for null
findDuplicateAction(q, action) ==
    LET same(existing) ==
            /\ existing.type = action.type
            /\ existing.action = action.action
            /\ existing.studentId = action.studentId
            /\ JSONstringify(existing.payload) = JSONstringify(action.payload)
    IN  IF \E i \in 1..Len(q) : same(q[i])
        THEN CHOOSE i \in 1..Len(q) :
                same(q[i]) /\ \A j \in 1..(i - 1) : ~same(q[j])
        ELSE 0

Max(a, b) == IF a >= b THEN a ELSE b

Min(a, b) == IF a <= b THEN a ELSE b

\* getStats() without the size estimate
getStats(S) ==
    [pending |-> Len(SelectSeq(S.queue, LAMBDA a : a.id \notin S.processing)),
     processing |-> Cardinality(S.processing),
     failed |-> Cardinality(S.failedActions),
     completed |-> Cardinality(S.completedActions)]

\* notifyListeners(): the callback, while registered, is called with getStats()
notifyListeners(S) ==
    IF S.listeners THEN [S EXCEPT !.delivered = Append(@, getStats(S))] ELSE S

(***************************************************************************)
(* Queue Store: enqueue, dequeue, clear, retryFailed.                      *)
(***************************************************************************)

\* Records that leave the queue array while an executor call on them is
\* awaited stay alive as the call's argument.
Detach(S, removed) ==
    [S EXCEPT !.orphans = @ \cup {r \in removed : r.id \in DOMAIN S.inFlight}]

\* handleDuplicate(existing, newAction), one definition per case of its
\* switch.  i is the index of existing in the queue, id2 the identifier the
\* second uuidv7() call yields, t2 the second reading of Date.now().  The
\* result is the new fields, the value returned and the number of
\* identifiers enqueue has consumed.

\* a skip that writes the request into the record it found
skipDuplicate_Writes(S, i, newAction) ==
    [st |-> [S EXCEPT !.queue[i].payload = newAction.payload,
                      !.queue[i].timestamp = newAction.timestamp],
     ret |-> S.queue[i].id, used |-> 1]

\* case "skip"
skipDuplicate(S, i, newAction) ==
    [st |-> S, ret |-> S.queue[i].id, used |-> 1]

\* an overwrite that replaces the whole record but its id
overwriteDuplicate_WholeRecord(S, i, newAction, w) ==
    [st |-> saveToStorage(
              [S EXCEPT !.queue[i] = [newAction EXCEPT !.id = S.queue[i].id]], w),
     ret |-> S.queue[i].id, used |-> 1]

\* case "overwrite"
overwriteDuplicate(S, i, newAction, w) ==
    [st |-> saveToStorage(
              [S EXCEPT !.queue[i].payload = newAction.payload,
                        !.queue[i].timestamp = newAction.timestamp], w),
     ret |-> S.queue[i].id, used |-> 1]

\* case "merge", both payloads of typeof "object"
mergeDuplicate(S, i, newAction, w) ==
    [st |-> saveToStorage(
              [S EXCEPT !.queue[i].payload =
                            Spread(S.queue[i].payload, newAction.payload),
                        !.queue[i].timestamp =
                            Max(S.queue[i].timestamp, newAction.timestamp)], w),
     ret |-> S.queue[i].id, used |-> 1]

\* a manual resolution that puts the new record in the place of the old one
manualDuplicate_Replaces(S, i, newAction, id2, t2, w) ==
    [st |-> saveToStorage(
              [S EXCEPT !.queue[i] = [newAction EXCEPT !.id = id2,
                                                       !.timestamp = t2]], w),
     ret |-> newAction.id, used |-> 2]

\* case "manual" and default, which case "merge" falls through to
manualDuplicate(S, i, newAction, id2, t2, w) ==
    LET pushed == [newAction EXCEPT !.id = id2, !.timestamp = t2,
                                    !.retryCount = 0]
    IN  [st |-> saveToStorage([S EXCEPT !.queue = Append(@, pushed)], w),
         ret |-> newAction.id, used |-> 2]

handleDuplicate(S, i, newAction, id2, t2, w) ==
    LET existing == S.queue[i]
        cr == newAction.conflictResolution
        mergeable == /\ typeOf(existing.payload) = "object"
                     /\ typeOf(newAction.payload) = "object"
    IN  CASE cr = "skip" -> skipDuplicate(S, i, newAction)
          [] cr = "overwrite" -> overwriteDuplicate(S, i, newAction, w)
          [] cr = "merge" /\ mergeable -> mergeDuplicate(S, i, newAction, w)
          [] OTHER -> manualDuplicate(S, i, newAction, id2, t2, w)

\* enqueue(action): id1 and id2 are the next two identifiers of uuidv7(), t
\* is Date.now().  used is the number of identifiers consumed.
enqueue(S, req, id1, id2, t, w) ==
    LET queuedAction == QueuedAction(req, id1, t)
        existingAction == findDuplicateAction(S.queue, queuedAction)
    IN  IF existingAction # 0
        THEN handleDuplicate(S, existingAction, queuedAction, id2, t, w)
        ELSE [st |-> notifyListeners(saveToStorage(
                       [S EXCEPT !.queue =
                            sortQueueByPriority(Append(S.queue, queuedAction))], w)),
              ret |-> queuedAction.id, used |-> 1]

\* a dequeue that leaves the id in the processing set
dequeue_KeepsProcessing(S, actionId, w) ==
    LET index == IndexOfId(S.queue, actionId)
    IN  IF index = 0 THEN [st |-> S, ret |-> FALSE]
        ELSE [st |-> notifyListeners(saveToStorage(
                       [Detach(S, {S.queue[index]})
                          EXCEPT !.queue = RemoveAt(S.queue, index)], w)),
              ret |-> TRUE]

\* dequeue(actionId)
dequeue(S, actionId, w) ==
    LET index == IndexOfId(S.queue, actionId)
    IN  IF index = 0 THEN [st |-> S, ret |-> FALSE]
        ELSE [st |-> notifyListeners(saveToStorage(
                       [Detach(S, {S.queue[index]})
                          EXCEPT !.queue = RemoveAt(S.queue, index),
                                 !.processing = @ \ {actionId}], w)),
              ret |-> TRUE]

\* The predicates callers hand to clear; "none" is the call without one.
Filters == {"none", "lowPriority", "student1", "retried"}

ApplyFilter(f, action) ==
    CASE f = "lowPriority" -> action.priority = "low"
      [] f = "student1" -> action.studentId = "s1"
      [] f = "retried" -> action.retryCount > 0

\* a clear() that leaves the failed map as it is
clear_KeepsFailed(S, f, w) ==
    LET initialLength == Len(S.queue)
        all == {S.queue[i] : i \in 1..Len(S.queue)}
        kept == SelectSeq(S.queue, LAMBDA a : ~ApplyFilter(f, a))
        S1 == IF f # "none"
              THEN [Detach(S, {a \in all : ApplyFilter(f, a)})
                      EXCEPT !.queue = kept]
              ELSE [Detach(S, all)
                      EXCEPT !.queue = <<>>, !.processing = {},
                             !.completedActions = {}]
        S2 == notifyListeners(saveToStorage(S1, w))
    IN  [st |-> S2, ret |-> initialLength - Len(S2.queue)]

\* clear(filter)
clear(S, f, w) ==
    LET initialLength == Len(S.queue)
        all == {S.queue[i] : i \in 1..Len(S.queue)}
        kept == SelectSeq(S.queue, LAMBDA a : ~ApplyFilter(f, a))
        S1 == IF f # "none"
              THEN [Detach(S, {a \in all : ApplyFilter(f, a)})
                      EXCEPT !.queue = kept]
              ELSE [Detach(S, all)
                      EXCEPT !.queue = <<>>, !.processing = {},
                             !.failedActions = {}, !.completedActions = {}]
        S2 == notifyListeners(saveToStorage(S1, w))
    IN  [st |-> S2, ret |-> initialLength - Len(S2.queue)]

\* addListener(callback): the callback is called at once
addListener(S) ==
    [S EXCEPT !.listeners = TRUE, !.delivered = Append(@, getStats(S))]

\* the function addListener returned is called
unsubscribe(S) == [S EXCEPT !.listeners = FALSE]

\* retryFailed()
retryFailed(S) ==
    LET present == S.failedActions \cap QueueIds(S.queue)
    IN  notifyListeners(
            [S EXCEPT !.queue = [i \in 1..Len(S.queue) |->
                                   IF S.queue[i].id \in present
                                   THEN [S.queue[i] EXCEPT !.retryCount = 0]
                                   ELSE S.queue[i]],
                      !.failedActions = @ \ present])

\* getActions(status)
getActions(S, status) ==
    CASE status = "pending" ->
           SelectSeq(S.queue, LAMBDA a : a.id \notin S.processing)
      [] status = "processing" ->
           SelectSeq(S.queue, LAMBDA a : a.id \in S.processing)
      [] status = "failed" ->
           SelectSeq(S.queue, LAMBDA a : a.id \in S.failedActions)
      [] status = "completed" -> <<>>
      [] OTHER -> S.queue

(***************************************************************************)
(* Retry controller and scheduler.                                         *)
(***************************************************************************)

\* a completion that marks the id completed and leaves the record queued
completeAction_KeepsRecord(S, actionId, w) ==
    [saveToStorage(S, w) EXCEPT !.completedActions = @ \cup {actionId},
                                !.processing = @ \ {actionId}]

\* completeAction(actionId)
completeAction(S, actionId, w) ==
    LET S1 == dequeue(S, actionId, w).st
    IN  [S1 EXCEPT !.completedActions = @ \cup {actionId},
                   !.processing = @ \ {actionId}]

\* the record object an executor call was handed: the queue record with the
\* identifier while it is in the array, the orphan otherwise
ActionObject(S, actionId) ==
    IF IndexOfId(S.queue, actionId) # 0
    THEN S.queue[IndexOfId(S.queue, actionId)]
    ELSE CHOOSE r \in S.orphans : r.id = actionId

\* Math.min(1000 * Math.pow(2, action.retryCount), 30000), read after
\* action.retryCount++
backoffMs(retryCount) == Min(1000 * 2^retryCount, 30000)

\* an error handler that keeps a record that will be retried in the
\* processing set for as long as its backoff timer runs
handleActionError_HoldsForBackoff(S, actionId) ==
    LET index == IndexOfId(S.queue, actionId)
        action == ActionObject(S, actionId)
        retryCount == action.retryCount + 1
        S2 == IF index # 0
              THEN [S EXCEPT !.queue[index].retryCount = retryCount]
              ELSE [S EXCEPT !.orphans =
                        (@ \ {action}) \cup {[action EXCEPT !.retryCount = retryCount]}]
    IN  notifyListeners(IF retryCount >= action.maxRetries
                        THEN [S2 EXCEPT !.failedActions = @ \cup {actionId},
                                        !.processing = @ \ {actionId}]
                        ELSE [S2 EXCEPT !.timeouts =
                                  Append(@, backoffMs(retryCount))])

\* handleActionError(action, error)
handleActionError(S, actionId) ==
    LET index == IndexOfId(S.queue, actionId)
        action == ActionObject(S, actionId)
        retryCount == action.retryCount + 1
        S1 == [S EXCEPT !.processing = @ \ {actionId}]
        S2 == IF index # 0
              THEN [S1 EXCEPT !.queue[index].retryCount = retryCount]
              ELSE [S1 EXCEPT !.orphans =
                        (@ \ {action}) \cup {[action EXCEPT !.retryCount = retryCount]}]
    IN  notifyListeners(IF retryCount >= action.maxRetries
                        THEN [S2 EXCEPT !.failedActions = @ \cup {actionId}]
                        ELSE [S2 EXCEPT !.timeouts =
                                  Append(@, backoffMs(retryCount))])

\* a check that takes every dependency for met
areDependenciesMet_Always(S, action) == TRUE

\* a check that takes a dependency for met while its record is queued
areDependenciesMet_WhileQueued(S, action) ==
    \A k \in 1..Len(action.dependencies) :
        \/ action.dependencies[k] \in S.completedActions
        \/ IndexOfId(S.queue, action.dependencies[k]) # 0

\* areDependenciesMet(action)
areDependenciesMet(S, action) ==
    \A k \in 1..Len(action.dependencies) :
        \/ action.dependencies[k] \in S.completedActions
        \/ IndexOfId(S.queue, action.dependencies[k]) = 0

\* what the switch of processAction does for a type: "async" awaits a
\* collaborator (convexLearningSync.addResponse, updateSession) whose result
\* arrives in a later task; "resolves" only logs; "throws" is the default
\* branch, Unknown action type.
Executor(type) ==
    CASE type \in {"fluency-record", "session-update"} -> "async"
      [] type = "convex-mutation" -> "resolves"
      [] OTHER -> "throws"

EffectiveTypes == {"slow-2g", "2g", "3g", "4g"}

\* profiles[effectiveType].maxBatchSize
maxBatchSize(effectiveType) ==
    CASE effectiveType = "slow-2g" -> 5
      [] effectiveType = "2g" -> 10
      [] effectiveType = "3g" -> 25
      [] effectiveType = "4g" -> 100

\* Math.min(config.batchSize / 10, 5), in tenths
maxConcurrentTenths(effectiveType) == Min(maxBatchSize(effectiveType), 5 * 10)

\* ToIntegerOrInfinity(n / d) for d > 0: truncation towards zero
Trunc(n, d) == IF n >= 0 THEN n \div d ELSE 0 - ((0 - n) \div d)

\* Array.prototype.slice(0, end) for an integer end
SliceTo(a, end) ==
    LET final == IF end < 0 THEN Max(Len(a) + end, 0) ELSE Min(end, Len(a))
    IN  SubSeq(a, 1, final)

\* the records one tick of processQueue hands to processAction, in order
actionsToProcess(S, effectiveType) ==
    LET mc == maxConcurrentTenths(effectiveType)
        size == Cardinality(S.processing)
        availableActions ==
            SelectSeq(S.queue, LAMBDA action :
                /\ action.id \notin S.processing
                /\ action.id \notin S.failedActions
                /\ areDependenciesMet(S, action))
        sliced == SliceTo(availableActions, Trunc(mc - 10 * size, 10))
    IN  IF 10 * size < mc THEN sliced ELSE <<>>

\* the subsequence of ids whose executor is of the given kind
OfKind(acts, kind) == SelectSeq(acts, LAMBDA a : Executor(a.type) = kind)

\* a start of the executor calls that does not enter the ids into the
\* processing set
RECURSIVE StartAll_LeavesProcessing(_, _)
StartAll_LeavesProcessing(S, acts) ==
    IF acts = <<>> THEN S
    ELSE LET a == Head(acts)
             S1 == notifyListeners(S)
             S2 == IF Executor(a.type) = "async"
                   THEN [S1 EXCEPT !.inFlight = BagAdd(@, a.id)]
                   ELSE S1
         IN  StartAll_LeavesProcessing(S2, Tail(acts))

\* processAction(action) up to its await, for each record in turn: the id
\* enters the processing set, the listeners are notified, the executor is
\* called
RECURSIVE StartAll(_, _)
StartAll(S, acts) ==
    IF acts = <<>> THEN S
    ELSE LET a == Head(acts)
             S1 == notifyListeners([S EXCEPT !.processing = @ \cup {a.id}])
             S2 == IF Executor(a.type) = "async"
                   THEN [S1 EXCEPT !.inFlight = BagAdd(@, a.id)]
                   ELSE S1
         IN  StartAll(S2, Tail(acts))

RECURSIVE FailAll(_, _)
FailAll(S, acts) ==
    IF acts = <<>> THEN S
    ELSE FailAll(handleActionError(S, Head(acts).id), Tail(acts))

RECURSIVE CompleteAll(_, _, _)
CompleteAll(S, acts, w) ==
    IF acts = <<>> THEN S
    ELSE CompleteAll(completeAction(S, Head(acts).id, w), Tail(acts), w)

\* The dispatch of one tick, run until nothing but awaited collaborators is
\* left.  Every processAction first adds its id to processing.  The calls
\* whose executor needs no later task settle within the tick's microtasks:
\* the rejections of the default branch reach their catch one microtask
\* before the fulfilments of processConvexMutation reach completeAction.
dispatch(S, effectiveType, w) ==
    LET acts == actionsToProcess(S, effectiveType)
        S1 == StartAll(S, acts)
        S2 == FailAll(S1, OfKind(acts, "throws"))
    IN  CompleteAll(S2, OfKind(acts, "resolves"), w)

\* a tick that does not ask whether the connection is online
processQueue_IgnoresOffline(S, online, effectiveType, w) ==
    dispatch(S, effectiveType, w)

\* processQueue(): nothing happens while the connection reports offline
processQueue(S, online, effectiveType, w) ==
    IF ~online THEN S ELSE dispatch(S, effectiveType, w)

\* a settling in which a rejection gives up every call that is still awaited
settle_AbortsSiblings(S, actionId, ok, w) ==
    LET S1 == IF ok THEN completeAction(S, actionId, w)
              ELSE handleActionError(S, actionId)
        left == IF ok THEN BagRemove(S1.inFlight, actionId) ELSE EmptyBag
    IN  [S1 EXCEPT !.inFlight = left,
                   !.processing = IF ok THEN @ ELSE {},
                   !.orphans = {r \in @ : r.id \in DOMAIN left}]

\* an awaited executor call on actionId settles
settle(S, actionId, ok, w) ==
    LET S1 == IF ok THEN completeAction(S, actionId, w)
              ELSE handleActionError(S, actionId)
        left == BagRemove(S1.inFlight, actionId)
    IN  [S1 EXCEPT !.inFlight = left,
                   !.orphans = {r \in @ : r.id \in DOMAIN left}]

\* a load that takes the records and forgets the completed ids
loadFromStorage_ForgetsCompleted(S) ==
    IF S.storage.present
    THEN [EmptyQueueState EXCEPT !.queue = S.storage.queue,
                                 !.storage = S.storage]
    ELSE [EmptyQueueState EXCEPT !.storage = S.storage]

\* loadFromStorage() in the constructor of a new process
loadFromStorage(S) ==
    IF S.storage.present
    THEN [EmptyQueueState EXCEPT !.queue = S.storage.queue,
                                 !.completedActions = S.storage.completedActions,
                                 !.storage = S.storage]
    ELSE [EmptyQueueState EXCEPT !.storage = S.storage]

(***************************************************************************)
(* mergeRecords (src/src/lib/merge/mergeRecords.ts).  A string is the      *)
(* sequence of its characters; a Date is valid with a time value, or the   *)
(* Invalid Date, whose getTime() is NaN.                                   *)
(***************************************************************************)
DateOf(ms) == [valid |-> TRUE, time |-> ms]

InvalidDate == [valid |-> FALSE, time |-> 0]

Digits == <<"0", "1", "2", "3", "4", "5", "6", "7", "8", "9">>

\* Number::toString for an integer, as the template literal applies it
RECURSIVE NumberToString(_)
NumberToString(n) ==
    IF n < 0 THEN <<"-">> \o NumberToString(0 - n)
    ELSE IF n < 10 THEN <<Digits[n + 1]>>
    ELSE NumberToString(n \div 10) \o <<Digits[(n % 10) + 1]>>

\* `${record.timestamp.getTime()}`
TimeText(d) == IF d.valid THEN NumberToString(d.time) ELSE <<"N", "a", "N">>

\* getRecordKey(record): `${studentId}|${word}|${timestamp.getTime()}`
getRecordKey(record) ==
    record.studentId \o <<"|">> \o record.word \o <<"|">> \o TimeText(record.timestamp)

FluencyRecord(studentId, word, response, timestamp) ==
    [studentId |-> studentId, word |-> word, response |-> response,
     timestamp |-> timestamp]

\* The records handed to mergeRecords: two that differ and have the same
\* key ("s" with "c|d", "s|c" with "d"), two that differ in the response
\* only, a later time, a time before 1970 and the Invalid Date.
FluencyRecords ==
    { FluencyRecord(<<"s">>, <<"c", "|", "d">>, 1, DateOf(12)),
      FluencyRecord(<<"s", "|", "c">>, <<"d">>, 0, DateOf(12)),
      FluencyRecord(<<"s">>, <<"d">>, 1, DateOf(0 - 1)),
      FluencyRecord(<<"s">>, <<"d">>, 0, DateOf(0 - 1)),
      FluencyRecord(<<"s">>, <<"d">>, 1, InvalidDate) }

\* the arrays of at most MaxMergeLen of these records
RecordArrays == UNION {[1..n -> FluencyRecords] : n \in 0..MaxMergeLen}

\* array.map(getRecordKey)
KeysOf(records) == [i \in 1..Len(records) |-> getRecordKey(records[i])]

\* the loop of mergeRecords over the rest of incoming
RECURSIVE mergeLoop(_, _, _, _)
mergeLoop(existingKeys, rest, added, skipped) ==
    IF rest = <<>> THEN [added |-> added, skipped |-> skipped]
    ELSE LET rec == Head(rest)
         IN  IF getRecordKey(rec) \in existingKeys
             THEN mergeLoop(existingKeys, Tail(rest), added, Append(skipped, rec))
             ELSE mergeLoop(existingKeys \cup {getRecordKey(rec)}, Tail(rest),
                            Append(added, rec), skipped)

\* a merge that appends every incoming record
mergeRecords_AppendsAll(existing, incoming) ==
    [merged |-> existing \o incoming, added |-> incoming, skipped |-> <<>>]

\* mergeRecords(existing, incoming)
mergeRecords(existing, incoming) ==
    LET existingKeys == {getRecordKey(existing[i]) : i \in 1..Len(existing)}
        r == mergeLoop(existingKeys, incoming, <<>>, <<>>)
    IN  [merged |-> existing \o r.added, added |-> r.added,
         skipped |-> r.skipped]

\* the result before mergeRecords has been called
NoResult == [merged |-> <<>>, added |-> <<>>, skipped |-> <<>>]

\* mergeRecords has not been called
NoMergeRun ==
    [existing |-> <<>>, incoming |-> <<>>, first |-> NoResult,
     second |-> NoResult, calls |-> 0]

(***************************************************************************)
(* The state machine.                                                      *)
(***************************************************************************)
VARIABLES
    queue,             \* OfflineActionQueue.queue
    processing,        \* OfflineActionQueue.processing
    failedActions,     \* the keys of OfflineActionQueue.failedActions
    completedActions,  \* OfflineActionQueue.completedActions
    storage,           \* localStorage["rbe.offline.queue"]
    inFlight,          \* the awaited executor calls
    orphans,           \* records only awaited executor calls refer to
    listeners,         \* TRUE while the callback is in OfflineActionQueue.listeners
    delivered,         \* the stats the callback received during the last step
    timeouts,          \* the delays handed to setTimeout during the last step
    processingTimer,   \* TRUE while the interval timer is set
    isOnline,          \* networkManager.getConnection().isOnline
    nextId,            \* the identifier the next uuidv7() call yields
    now,               \* Date.now()
    ret,               \* the value the last public call returned
    lastOp,            \* the last step taken and its arguments
    mergeRun           \* the arguments and results of the mergeRecords calls

vars == <<queue, processing, failedActions, completedActions, storage,
          inFlight, orphans, listeners, delivered, timeouts, processingTimer,
          isOnline, nextId, now, ret, lastOp, mergeRun>>

\* the fields of the queue object in the current state
Fields ==
    [queue |-> queue, processing |-> processing,
     failedActions |-> failedActions, completedActions |-> completedActions,
     storage |-> storage, inFlight |-> inFlight, orphans |-> orphans,
     listeners |-> listeners, delivered |-> <<>>, timeouts |-> <<>>]

Becomes(S) ==
    /\ queue' = S.queue
    /\ processing' = S.processing
    /\ failedActions' = S.failedActions
    /\ completedActions' = S.completedActions
    /\ storage' = S.storage
    /\ inFlight' = S.inFlight
    /\ orphans' = S.orphans
    /\ listeners' = S.listeners
    /\ delivered' = S.delivered
    /\ timeouts' = S.timeouts

NoReq == Req("none", "none", "none", StrS, "low", 0, <<>>, "skip")

\* arg is the predicate (clear) or the connection type (tick) of the step,
\* id the identifier (dequeue, fulfil, reject); seq tells a timer tick from
\* the tick before it; w is the outcome of the localStorage.setItem calls
\* the step makes
Op(name, req, arg) ==
    [op |-> name, req |-> req, arg |-> arg, id |-> 0, seq |-> 0, w |-> "ok"]

\* The value a call returned, under the name of what it is: the id of
\* enqueue, the boolean of dequeue, the count of clear, nothing.
Void == [void |-> TRUE]

Init ==
    /\ queue = <<>>
    /\ processing = {}
    /\ failedActions = {}
    /\ completedActions = {}
    /\ storage = NoStorage
    /\ inFlight = EmptyBag
    /\ orphans = {}
    /\ listeners = FALSE
    /\ delivered = <<>>
    /\ timeouts = <<>>
    /\ processingTimer = TRUE
    /\ isOnline = TRUE
    /\ nextId = 1
    /\ now = 0
    /\ ret = Void
    /\ lastOp = Op("new", NoReq, "none")
    /\ mergeRun = NoMergeRun

\* Milliseconds that may pass between two readings of Date.now(): two calls
\* can fall in the same millisecond.
ClockSteps == {0, 1}

\* Callers that are at least a millisecond apart.
ClockAdvances == {1}

\* A caller calls enqueue(req).  The clock has advanced by one of elapsed
\* since it was last read; maxIds bounds the identifiers.
Enqueue(req, w, maxIds, elapsed) ==
    \E t \in {now + d : d \in elapsed} :
        LET r == enqueue(Fields, req, nextId, nextId + 1, t, w)
        IN  /\ nextId + r.used - 1 <= maxIds
            /\ Becomes(r.st)
            /\ ret' = [id |-> r.ret]
            /\ nextId' = nextId + r.used
            /\ now' = t
            /\ lastOp' = [Op("enqueue", req, "none") EXCEPT !.w = w]
            /\ UNCHANGED <<processingTimer, isOnline, mergeRun>>

Dequeue(actionId, w) ==
    LET r == dequeue(Fields, actionId, w)
    IN  /\ Becomes(r.st)
        /\ ret' = [removed |-> r.ret]
        /\ lastOp' = [Op("dequeue", NoReq, "none") EXCEPT !.id = actionId,
                                                         !.w = w]
        /\ UNCHANGED <<processingTimer, isOnline, nextId, now, mergeRun>>

Clear(f, w) ==
    LET r == clear(Fields, f, w)
    IN  /\ Becomes(r.st)
        /\ ret' = [count |-> r.ret]
        /\ lastOp' = [Op("clear", NoReq, f) EXCEPT !.w = w]
        /\ UNCHANGED <<processingTimer, isOnline, nextId, now, mergeRun>>

RetryFailed ==
    /\ Becomes(retryFailed(Fields))
    /\ ret' = Void
    /\ lastOp' = Op("retryFailed", NoReq, "none")
    /\ UNCHANGED <<processingTimer, isOnline, nextId, now, mergeRun>>

\* a stopProcessing() that leaves the interval timer set
StopProcessing_KeepsTimer ==
    /\ processingTimer' = processingTimer
    /\ ret' = Void
    /\ lastOp' = Op("stopProcessing", NoReq, "none")
    /\ Becomes(Fields)
    /\ UNCHANGED <<isOnline, nextId, now, mergeRun>>

\* a caller calls stopProcessing()
StopProcessing ==
    /\ processingTimer' = FALSE
    /\ ret' = Void
    /\ lastOp' = Op("stopProcessing", NoReq, "none")
    /\ Becomes(Fields)
    /\ UNCHANGED <<isOnline, nextId, now, mergeRun>>

\* The interval timer fires.  effectiveType is what the connection reports
\* at that moment: "change" events of navigator.connection alter it between
\* ticks and nothing but processQueue reads it.  With counted, the step
\* records in seq that it is another tick than the one before it, so that
\* a tick that changes nothing else is still a step.
Tick(effectiveType, w, counted) ==
    /\ processingTimer
    /\ Becomes(processQueue(Fields, isOnline, effectiveType, w))
    /\ ret' = Void
    /\ lastOp' = [Op("tick", NoReq, effectiveType) EXCEPT
                      !.seq = IF counted /\ lastOp.op = "tick"
                              THEN 1 - lastOp.seq ELSE 0,
                      !.w = w]
    /\ UNCHANGED <<processingTimer, isOnline, nextId, now, mergeRun>>

\* an awaited executor call fulfils (ok) or rejects
Settle(actionId, ok, w) ==
    /\ actionId \in DOMAIN inFlight
    /\ Becomes(settle(Fields, actionId, ok, w))
    /\ ret' = Void
    /\ lastOp' = [Op(IF ok THEN "fulfil" ELSE "reject", NoReq, "none")
                      EXCEPT !.id = actionId, !.w = w]
    /\ UNCHANGED <<processingTimer, isOnline, nextId, now, mergeRun>>

\* window "offline" event
GoOffline ==
    /\ isOnline
    /\ isOnline' = FALSE
    /\ ret' = Void
    /\ lastOp' = Op("offline", NoReq, "none")
    /\ Becomes(Fields)
    /\ UNCHANGED <<processingTimer, nextId, now, mergeRun>>

\* window "online" event: the listener of setupNetworkListeners runs
\* retryFailed()
GoOnline ==
    /\ ~isOnline
    /\ isOnline' = TRUE
    /\ Becomes(retryFailed(Fields))
    /\ ret' = Void
    /\ lastOp' = Op("online", NoReq, "none")
    /\ UNCHANGED <<processingTimer, nextId, now, mergeRun>>

\* The page is loaded again: a new process constructs the queue from the
\* stored snapshot, starts the timer and registers its network listener,
\* which is called at once with the current status.
Restart ==
    /\ Becomes(IF isOnline THEN retryFailed(loadFromStorage(Fields))
                           ELSE loadFromStorage(Fields))
    /\ processingTimer' = TRUE
    /\ ret' = Void
    /\ lastOp' = Op("restart", NoReq, "none")
    /\ UNCHANGED <<isOnline, nextId, now, mergeRun>>

\* A caller registers its callback; it does so while it has none registered.
AddListener ==
    /\ ~listeners
    /\ Becomes(addListener(Fields))
    /\ ret' = Void
    /\ lastOp' = Op("addListener", NoReq, "none")
    /\ UNCHANGED <<processingTimer, isOnline, nextId, now, mergeRun>>

\* The caller calls the function addListener returned.
Unsubscribe ==
    /\ listeners
    /\ Becomes(unsubscribe(Fields))
    /\ ret' = Void
    /\ lastOp' = Op("unsubscribe", NoReq, "none")
    /\ UNCHANGED <<processingTimer, isOnline, nextId, now, mergeRun>>

(***************************************************************************)
(* Spec: the queue with its scheduler, the executor outcomes and the       *)
(* network events, storage writes succeeding.                              *)
(***************************************************************************)
Next ==
    \/ \E req \in SchedRequests : Enqueue(req, "ok", MaxSchedIds, ClockAdvances)
    \/ \E actionId \in 1..MaxSchedIds : Dequeue(actionId, "ok")
    \/ \E f \in Filters : Clear(f, "ok")
    \/ RetryFailed
    \/ \E e \in EffectiveTypes : Tick(e, "ok", FALSE)
    \/ \E actionId \in 1..MaxSchedIds, ok \in BOOLEAN : Settle(actionId, ok, "ok")
    \/ GoOffline
    \/ GoOnline

Spec == Init /\ [][Next]_vars

(***************************************************************************)
(* SpecStore: the queue store on its own (enqueue, dequeue, clear) under   *)
(* the larger set of requests.                                             *)
(***************************************************************************)
NextStore ==
    \/ \E req \in Requests : Enqueue(req, "ok", MaxIds, ClockSteps)
    \/ \E actionId \in 1..MaxIds : Dequeue(actionId, "ok")
    \/ \E f \in Filters : Clear(f, "ok")

SpecStore == Init /\ [][NextStore]_vars

(***************************************************************************)
(* SpecReload: the queue with its scheduler and reloads of the page.       *)
(***************************************************************************)
NextReload ==
    \/ \E req \in ReloadRequests : Enqueue(req, "ok", MaxReloadIds, ClockSteps)
    \/ \E actionId \in 1..MaxReloadIds : Dequeue(actionId, "ok")
    \/ Clear("none", "ok")
    \/ RetryFailed
    \/ \E e \in EffectiveTypes : Tick(e, "ok", FALSE)
    \/ \E actionId \in 1..MaxReloadIds, ok \in BOOLEAN : Settle(actionId, ok, "ok")
    \/ /\ \A i \in 1..Len(storage.queue) : storage.queue[i].retryCount <= MaxRetryCount
       /\ Restart

SpecReload == Init /\ [][NextReload]_vars

(***************************************************************************)
(* SpecListen: the queue with its scheduler and a subscriber, online.      *)
(***************************************************************************)
NextListen ==
    \/ \E req \in ListenRequests : Enqueue(req, "ok", MaxListenIds, ClockSteps)
    \/ \E actionId \in 1..MaxListenIds : Dequeue(actionId, "ok")
    \/ \E f \in Filters : Clear(f, "ok")
    \/ RetryFailed
    \/ \E e \in EffectiveTypes : Tick(e, "ok", FALSE)
    \/ \E actionId \in 1..MaxListenIds, ok \in BOOLEAN : Settle(actionId, ok, "ok")
    \/ AddListener
    \/ Unsubscribe

SpecListen == Init /\ [][NextListen]_vars

(***************************************************************************)
(* SpecLive: enqueues without dependencies, executors that succeed, the    *)
(* connection online.  setInterval keeps calling processQueue, and every   *)
(* awaited executor call settles.                                          *)
(***************************************************************************)
TickLive == \E e \in EffectiveTypes : Tick(e, "ok", TRUE)

SettleLive == \E actionId \in 1..MaxLiveIds : Settle(actionId, TRUE, "ok")

NextLive ==
    \/ \E req \in LiveRequests : Enqueue(req, "ok", MaxLiveIds, ClockSteps)
    \/ TickLive
    \/ SettleLive

SpecLive ==
    /\ Init
    /\ [][NextLive]_vars
    /\ WF_vars(TickLive)
    /\ WF_vars(SettleLive)

(***************************************************************************)
(* SpecBatch: ticks that dispatch several records at once, executor calls  *)
(* that fulfil or reject in any order, and the timer being stopped.        *)
(***************************************************************************)
NextBatch ==
    \/ \E req \in BatchRequests : Enqueue(req, "ok", MaxBatchIds, ClockAdvances)
    \/ \E e \in EffectiveTypes : Tick(e, "ok", FALSE)
    \/ \E actionId \in 1..MaxBatchIds, ok \in BOOLEAN : Settle(actionId, ok, "ok")
    \/ StopProcessing

SpecBatch == Init /\ [][NextBatch]_vars

(***************************************************************************)
(* SpecQuota: the queue and its scheduler over a localStorage whose        *)
(* setItem may throw, QuotaExceededError or another error; executors that  *)
(* complete within the tick.                                               *)
(***************************************************************************)
NextQuota ==
    \/ \E req \in QuotaRequests, w \in WriteOutcomes :
          Enqueue(req, w, MaxQuotaIds, ClockAdvances)
    \/ \E actionId \in 1..MaxQuotaIds, w \in WriteOutcomes : Dequeue(actionId, w)
    \/ \E f \in Filters, w \in WriteOutcomes : Clear(f, w)
    \/ \E e \in EffectiveTypes, w \in WriteOutcomes : Tick(e, w, FALSE)

SpecQuota == Init /\ [][NextQuota]_vars

(***************************************************************************)
(* SpecInput: the queue and its scheduler with callers that pass values    *)
(* outside the declared types.                                             *)
(***************************************************************************)
NextInput ==
    \/ \E req \in InputRequests : Enqueue(req, "ok", MaxInputIds, ClockAdvances)
    \/ \E actionId \in 1..MaxInputIds : Dequeue(actionId, "ok")
    \/ \E e \in EffectiveTypes : Tick(e, "ok", FALSE)
    \/ \E actionId \in 1..MaxInputIds, ok \in BOOLEAN : Settle(actionId, ok, "ok")

SpecInput == Init /\ [][NextInput]_vars

(***************************************************************************)
(* SpecOrder: the queue and its scheduler with duplicates that differ in   *)
(* priority from the record they repeat.                                   *)
(***************************************************************************)
NextOrder ==
    \/ \E req \in OrderRequests : Enqueue(req, "ok", MaxOrderIds, ClockAdvances)
    \/ \E actionId \in 1..MaxOrderIds : Dequeue(actionId, "ok")
    \/ \E e \in EffectiveTypes : Tick(e, "ok", FALSE)
    \/ \E actionId \in 1..MaxOrderIds, ok \in BOOLEAN : Settle(actionId, ok, "ok")

SpecOrder == Init /\ [][NextOrder]_vars

(***************************************************************************)
(* SpecMerge: mergeRecords applied to two arrays, and again to its merged  *)
(* result and the same incoming array.  The queue is not touched.          *)
(***************************************************************************)
InitMerge ==
    /\ queue = <<>>
    /\ processing = {}
    /\ failedActions = {}
    /\ completedActions = {}
    /\ storage = NoStorage
    /\ inFlight = EmptyBag
    /\ orphans = {}
    /\ listeners = FALSE
    /\ delivered = <<>>
    /\ timeouts = <<>>
    /\ processingTimer = TRUE
    /\ isOnline = TRUE
    /\ nextId = 1
    /\ now = 0
    /\ ret = Void
    /\ lastOp = Op("new", NoReq, "none")
    /\ mergeRun \in {[NoMergeRun EXCEPT !.existing = e, !.incoming = i] :
                         e \in RecordArrays, i \in RecordArrays}

\* const first = mergeRecords(existing, incoming)
MergeFirst ==
    /\ mergeRun.calls = 0
    /\ mergeRun' = [mergeRun EXCEPT
                       !.first = mergeRecords(mergeRun.existing, mergeRun.incoming),
                       !.calls = 1]
    /\ lastOp' = Op("mergeRecords", NoReq, "none")
    /\ UNCHANGED <<queue, processing, failedActions, completedActions, storage,
                   inFlight, orphans, listeners, delivered, timeouts, processingTimer,
                   isOnline, nextId, now, ret>>

\* const second = mergeRecords(first.merged, incoming)
MergeSecond ==
    /\ mergeRun.calls = 1
    /\ mergeRun' = [mergeRun EXCEPT
                       !.second = mergeRecords(mergeRun.first.merged, mergeRun.incoming),
                       !.calls = 2]
    /\ lastOp' = Op("mergeRecords", NoReq, "none")
    /\ UNCHANGED <<queue, processing, failedActions, completedActions, storage,
                   inFlight, orphans, listeners, delivered, timeouts, processingTimer,
                   isOnline, nextId, now, ret>>

NextMerge ==
    \/ MergeFirst
    \/ MergeSecond

SpecMerge == InitMerge /\ [][NextMerge]_vars

(***************************************************************************)
(* Properties.                                                             *)
(***************************************************************************)

\* the indices of the records of q that have the type, action, studentId
\* and JSON-equal payload of req
StructuralDuplicates(q, req) ==
    {i \in 1..Len(q) :
        /\ q[i].type = req.type
        /\ q[i].action = req.action
        /\ q[i].studentId = req.studentId
        /\ JSONstringify(q[i].payload) = JSONstringify(req.payload)}

\* the step is a call enqueue(req) with policy cr that meets a duplicate
DuplicateEnqueued(cr) ==
    /\ lastOp'.op = "enqueue"
    /\ lastOp'.req.conflictResolution = cr
    /\ StructuralDuplicates(queue, lastOp'.req) # {}

\* C1: an enqueue with policy skip that meets a structural duplicate returns
\* the id of that record and leaves the queue, the processing set, the
\* failed map and the completed set as they were.
C1_SkipLeavesEverything ==
    [][DuplicateEnqueued("skip") =>
         /\ ret'.id \in {queue[i].id : i \in StructuralDuplicates(queue, lastOp'.req)}
         /\ UNCHANGED <<queue, processing, failedActions, completedActions>>]_vars

\* a skip met a record that had failed once and was being processed again
C1_Witness ==
    /\ lastOp.op = "enqueue"
    /\ lastOp.req.conflictResolution = "skip"
    /\ ret.id < nextId - 1
    /\ \E i \in 1..Len(queue) :
          /\ queue[i].id = ret.id
          /\ queue[i].retryCount = 1
          /\ ret.id \in processing

\* C2: an enqueue with policy overwrite that meets a structural duplicate
\* returns that record's id, adds no record, gives the record the payload
\* and timestamp of the request and changes nothing else in it or in any
\* other record.
C2_OverwriteReplacesPayloadAndTimestamp ==
    [][DuplicateEnqueued("overwrite") =>
         \E i \in StructuralDuplicates(queue, lastOp'.req) :
            /\ ret'.id = queue[i].id
            /\ Len(queue') = Len(queue)
            /\ queue' = [queue EXCEPT ![i] =
                            [queue[i] EXCEPT !.payload = lastOp'.req.payload,
                                             !.timestamp = now']]]_vars

\* an overwrite gave a record of another priority a new payload and a later
\* timestamp, with a second record in the queue
C2_Witness ==
    /\ lastOp.op = "enqueue"
    /\ lastOp.req.conflictResolution = "overwrite"
    /\ ret.id < nextId - 1
    /\ Len(queue) = 2
    /\ \E i \in 1..Len(queue) :
          /\ queue[i].id = ret.id
          /\ queue[i].payload = ObjA1Bu
          /\ queue[i].priority = "high"
          /\ queue[i].timestamp = now
          /\ now > 0

\* C3: with a record of payload {a:1} in the queue, an enqueue of the same
\* type, action and studentId with policy merge and payload {b:2} adds no
\* record and leaves that record with its id, the payload {a:1,b:2} and the
\* later of the two timestamps.
C3_MergeCombinesPayloads ==
    [][\A i \in 1..Len(queue) :
          ( /\ lastOp'.op = "enqueue"
            /\ lastOp'.req.conflictResolution = "merge"
            /\ lastOp'.req.payload = ObjB2
            /\ queue[i].payload = ObjA1
            /\ queue[i].type = lastOp'.req.type
            /\ queue[i].action = lastOp'.req.action
            /\ queue[i].studentId = lastOp'.req.studentId )
          => /\ Len(queue') = Len(queue)
             /\ \E j \in 1..Len(queue') :
                   /\ queue'[j].id = queue[i].id
                   /\ queue'[j].payload = ObjA1B2
                   /\ queue'[j].timestamp = Max(queue[i].timestamp, now')]_vars

\* C4: an enqueue with policy merge that meets a structural duplicate whose
\* payloads are not both objects does what overwrite does: no record is
\* added, the record found gets the payload and timestamp of the request
\* and its id is returned.
C4_MergeFallsBackToOverwrite ==
    [][\A i \in StructuralDuplicates(queue, lastOp'.req) :
          ( /\ DuplicateEnqueued("merge")
            /\ ~( /\ typeOf(queue[i].payload) = "object"
                  /\ typeOf(lastOp'.req.payload) = "object" ) )
          => /\ Len(queue') = Len(queue)
             /\ ret'.id = queue[i].id
             /\ queue'[i].payload = lastOp'.req.payload
             /\ queue'[i].timestamp = now']_vars

\* C5: an enqueue with policy manual that meets a structural duplicate adds
\* exactly one record, with an id never used before and retryCount 0, and
\* leaves every record that was in the queue unchanged.
C5_ManualAddsOneRecord ==
    [][DuplicateEnqueued("manual") =>
         \E k \in 1..Len(queue') :
            /\ RemoveAt(queue', k) = queue
            /\ queue'[k].id >= nextId
            /\ queue'[k].id \notin QueueIds(queue)
            /\ queue'[k].retryCount = 0
            /\ queue'[k].payload = lastOp'.req.payload
            /\ queue'[k].conflictResolution = "manual"
            /\ k \in StructuralDuplicates(queue', lastOp'.req)]_vars

\* two structural duplicates are in the queue after a manual enqueue
C5_Witness ==
    /\ lastOp.op = "enqueue"
    /\ lastOp.req.conflictResolution = "manual"
    /\ Cardinality(StructuralDuplicates(queue, lastOp.req)) = 2
    /\ \E i \in StructuralDuplicates(queue, lastOp.req) :
          queue[i].conflictResolution # "manual"

\* C6: the id an enqueue returns is the id of a record in the queue right
\* after the call.
C6_ReturnedIdIsQueued ==
    lastOp.op = "enqueue" => ret.id \in QueueIds(queue)

\* every identifier generated so far belongs to a record in the queue: the
\* history is a sequence of enqueues none of which met a duplicate
OnlyFreshEnqueues ==
    /\ Len(queue) = nextId - 1
    /\ QueueIds(queue) = 1..(nextId - 1)

\* C7: after enqueues into an empty queue none of which met a duplicate,
\* the queue lists the records by priority weight descending and, within a
\* priority, in the order of their enqueue (the order of their ids).
C7_PriorityThenFifo ==
    OnlyFreshEnqueues =>
        \A i, j \in 1..Len(queue) :
            i < j =>
                \/ priorityOrder(queue[i].priority) > priorityOrder(queue[j].priority)
                \/ /\ queue[i].priority = queue[j].priority
                   /\ queue[i].id < queue[j].id

\* enqueued in the order low, critical, normal
C7_Witness ==
    /\ OnlyFreshEnqueues
    /\ lastOp.op = "enqueue"
    /\ [i \in 1..Len(queue) |-> queue[i].priority] = <<"critical", "normal", "low">>
    /\ [i \in 1..Len(queue) |-> queue[i].id] = <<2, 3, 1>>

\* C8: a record enters the failed map at the failure that makes retryCount
\* equal to maxRetries: it is not in the map with a smaller retryCount, and
\* its retryCount is not greater than maxRetries when it enters.
C8_FailedExactlyAtCeiling ==
    [][\A i \in 1..Len(queue') :
          /\ queue'[i].id \in failedActions' =>
                queue'[i].retryCount >= queue'[i].maxRetries
          /\ (queue'[i].id \in failedActions' /\ queue'[i].id \notin failedActions) =>
                queue'[i].retryCount = queue'[i].maxRetries]_vars

\* C9: a tick while the connection reports offline starts no executor call
\* and leaves the queue, the processing set, the failed map, the completed
\* set and the counts of getStats as they were.
C9_OfflineTickIsNoOp ==
    [][(lastOp'.op = "tick" /\ ~isOnline) =>
         /\ UNCHANGED <<queue, processing, failedActions, completedActions, inFlight>>
         /\ getStats(Fields)' = getStats(Fields)]_vars

\* a tick ran offline and a record that is eligible is still pending
C9_Witness ==
    /\ lastOp.op = "tick"
    /\ ~isOnline
    /\ \E i \in 1..Len(queue) :
          /\ queue[i].id \notin processing
          /\ queue[i].id \notin failedActions
          /\ areDependenciesMet(Fields, queue[i])

\* C10: clear(predicate) removes exactly the records the predicate holds
\* of, keeps the others in their order and returns the number removed;
\* clear() removes every record, empties the processing set, the failed map
\* and the completed set, and returns the former length.
C10_ClearRemovesExactlyMatching ==
    [][lastOp'.op = "clear" =>
         IF lastOp'.arg = "none"
         THEN /\ queue' = <<>>
              /\ processing' = {}
              /\ failedActions' = {}
              /\ completedActions' = {}
              /\ ret'.count = Len(queue)
         ELSE /\ \A i \in 1..Len(queue) :
                    ApplyFilter(lastOp'.arg, queue[i])
                        <=> queue[i].id \notin QueueIds(queue')
              /\ \A k \in 1..Len(queue') :
                    /\ IndexOfId(queue, queue'[k].id) # 0
                    /\ queue'[k] = queue[IndexOfId(queue, queue'[k].id)]
                    /\ \A l \in 1..Len(queue') :
                          k < l => IndexOfId(queue, queue'[k].id)
                                     < IndexOfId(queue, queue'[l].id)
              /\ ret'.count = Cardinality({i \in 1..Len(queue) :
                                        ApplyFilter(lastOp'.arg, queue[i])})]_vars

\* a clear with a predicate removed one record and kept another
C10_Witness ==
    /\ lastOp.op = "clear"
    /\ lastOp.arg # "none"
    /\ ret.count = 1
    /\ Len(queue) = 1
    /\ ~ApplyFilter(lastOp.arg, queue[1])

\* the counts of getStats show nothing pending and nothing failed
Drained ==
    /\ getStats(Fields).pending = 0
    /\ getStats(Fields).failed = 0

\* from some point on every tick finds the connection type e
ConnectionStays(e) == <>[](lastOp.op = "tick" => lastOp.arg = e)

\* C11: with enqueues that have no dependencies, executors that succeed and
\* the connection online, under fair ticks and completions: whichever of
\* the connection types slow-2g, 2g, 3g, 4g the connection stays at, the
\* queue eventually has, and keeps, zero pending and zero failed records.
C11_ConvergesUnderEveryProfile ==
    \A e \in EffectiveTypes : ConnectionStays(e) => <>[]Drained

\* the last step was a call that ended with saveToStorage(): an enqueue
\* that was not skipped, a dequeue that removed a record, a clear
SavedLast ==
    \/ lastOp.op = "enqueue" /\ lastOp.req.conflictResolution # "skip"
    \/ lastOp.op = "dequeue" /\ ret.removed
    \/ lastOp.op = "clear"

\* C12 as stated: a reload right after a save gives a queue with the same
\* records in the same order, equal in every field, and the same completed
\* set.
C12_RoundTripIdentical ==
    [][(lastOp'.op = "restart" /\ SavedLast) =>
         /\ queue' = queue
         /\ completedActions' = completedActions]_vars

\* C12 amended: a reload right after a save gives a queue with the same
\* records in the same order, equal in every field but the payload, each
\* payload being what JSON keeps of it (a property whose value is undefined
\* is absent), and the same completed set.
C12_RoundTripUpToJson ==
    [][(lastOp'.op = "restart" /\ SavedLast) =>
         /\ queue' = [i \in 1..Len(queue) |->
                         [queue[i] EXCEPT !.payload = JSONstringify(@)]]
         /\ completedActions' = completedActions]_vars

\* a reload found two records, one of which had failed once
C12_Witness ==
    /\ lastOp.op = "restart"
    /\ Len(queue) = 2
    /\ \E i \in 1..Len(queue) : queue[i].retryCount > 0
    /\ \E i \in 1..Len(queue) : queue[i].dependencies # <<>>
    /\ storage = Snapshot(queue, completedActions)

\* C13: dequeue(id) returns true exactly when a record with that id is in
\* the queue, processed or not; after true the id is neither in the queue
\* nor in the processing set and the other records are as they were, in
\* their order; after false the queue, the processing set, the failed map,
\* the completed set and the stored snapshot are as they were.
C13_DequeueRemovesExactlyOne ==
    [][lastOp'.op = "dequeue" =>
         /\ ret'.removed <=> lastOp'.id \in QueueIds(queue)
         /\ ret'.removed =>
               /\ lastOp'.id \notin QueueIds(queue')
               /\ lastOp'.id \notin processing'
               /\ processing' = processing \ {lastOp'.id}
               /\ queue' = RemoveAt(queue, IndexOfId(queue, lastOp'.id))
         /\ ~ret'.removed =>
               UNCHANGED <<queue, processing, failedActions,
                           completedActions, storage>>]_vars

\* a record was removed while its executor call was awaited, and another
\* record stayed in the queue
C13_Witness ==
    /\ lastOp.op = "dequeue"
    /\ ret.removed
    /\ lastOp.id \in DOMAIN inFlight
    /\ Len(queue) = 1

\* the step changed the queue, the processing set, the failed map or the
\* completed set
Mutated ==
    <<queue, processing, failedActions, completedActions>>'
        # <<queue, processing, failedActions, completedActions>>

\* C14: addListener calls the callback once, with the current stats; while
\* the callback is registered every step that changes the queue state
\* calls it, the last time with the stats of the state the step leaves;
\* once unsubscribed it is not called.
C14_ListenerAfterEveryMutation ==
    [][/\ lastOp'.op = "addListener" => delivered' = <<getStats(Fields)>>
       /\ (listeners /\ listeners' /\ Mutated) =>
             /\ delivered' # <<>>
             /\ delivered'[Len(delivered')] = getStats(Fields)'
       /\ (~listeners /\ lastOp'.op # "addListener") => delivered' = <<>>]_vars

\* C15: in every reachable state the queue is ordered by priority weight
\* descending and, within a priority, by timestamp ascending.
C15_AlwaysSorted ==
    \A i, j \in 1..Len(queue) :
        i < j =>
            \/ priorityOrder(queue[i].priority) > priorityOrder(queue[j].priority)
            \/ /\ queue[i].priority = queue[j].priority
               /\ queue[i].timestamp <= queue[j].timestamp

\* C16: two records of the queue have the same type, action, studentId and
\* JSON-equal payloads only if the one enqueued later (the one with the
\* greater id) was enqueued with conflictResolution manual.
C16_DuplicatesOnlyManual ==
    \A i, j \in 1..Len(queue) :
        ( /\ queue[i].id < queue[j].id
          /\ queue[i].type = queue[j].type
          /\ queue[i].action = queue[j].action
          /\ queue[i].studentId = queue[j].studentId
          /\ JSONstringify(queue[i].payload) = JSONstringify(queue[j].payload) )
        => queue[j].conflictResolution = "manual"

\* C17: in every reachable state, reloads included, a record of the queue
\* that is not in the failed map has retryCount <= maxRetries, and a record
\* that a failure took to or past maxRetries is in the failed map.
C17_RetryCountWithinCeiling ==
    \A i \in 1..Len(queue) :
        /\ queue[i].id \notin failedActions =>
              queue[i].retryCount <= queue[i].maxRetries
        /\ (queue[i].retryCount >= 1 /\ queue[i].retryCount >= queue[i].maxRetries) =>
              queue[i].id \in failedActions

\* the ids of the records the step called the executor for: a call is now
\* awaited, or has completed, or has failed within the step
Dispatched ==
    {id \in QueueIds(queue) :
        \/ (IF id \in DOMAIN inFlight' THEN inFlight'[id] ELSE 0)
              > (IF id \in DOMAIN inFlight THEN inFlight[id] ELSE 0)
        \/ id \in completedActions' \ completedActions
        \/ \E i \in 1..Len(queue), j \in 1..Len(queue') :
              /\ queue[i].id = id
              /\ queue'[j].id = id
              /\ queue'[j].retryCount > queue[i].retryCount}

\* C18: every record a tick hands to the executor is, when the tick
\* starts, in the queue, not in the processing set, not in the failed map,
\* and each of its dependencies is in the completed set or is not the id of
\* a record in the queue.
C18_DispatchedWereEligible ==
    [][lastOp'.op = "tick" =>
         \A i \in 1..Len(queue) :
            queue[i].id \in Dispatched =>
               /\ queue[i].id \notin processing
               /\ queue[i].id \notin failedActions
               /\ \A k \in 1..Len(queue[i].dependencies) :
                     \/ queue[i].dependencies[k] \in completedActions
                     \/ queue[i].dependencies[k] \notin QueueIds(queue)]_vars

\* a tick has run, and the record that waited for record 2 has been
\* dispatched, and has failed, after record 2 completed
C18_Witness ==
    /\ lastOp.op = "tick"
    /\ completedActions = {2}
    /\ failedActions = {1}
    /\ \E i \in 1..Len(queue) :
          /\ queue[i].id = 1
          /\ queue[i].dependencies = <<2>>
          /\ queue[i].retryCount = 1

\* C19: a tick calls the executor only if the number of executor calls
\* still awaited is below the cap it computes, and with the calls it makes
\* the number of calls under way does not exceed that cap.
C19_InFlightWithinCap ==
    [][(lastOp'.op = "tick" /\ Dispatched # {}) =>
         /\ 10 * BagSize(inFlight) < maxConcurrentTenths(lastOp'.arg)
         /\ 10 * (BagSize(inFlight) + Cardinality(Dispatched))
               <= maxConcurrentTenths(lastOp'.arg)]_vars

\* C20: the cap an online tick computes is a whole number from 1 to 5,
\* whichever connection type is reported, and a tick that finds nothing
\* being processed and a record that is eligible dispatches at least one.
C20_CapIsWholeFromOneToFive ==
    [][(lastOp'.op = "tick" /\ isOnline) =>
         /\ maxConcurrentTenths(lastOp'.arg) % 10 = 0
         /\ maxConcurrentTenths(lastOp'.arg) >= 1 * 10
         /\ maxConcurrentTenths(lastOp'.arg) <= 5 * 10
         /\ ( /\ processing = {}
              /\ inFlight = EmptyBag
              /\ \E i \in 1..Len(queue) :
                    /\ queue[i].id \notin failedActions
                    /\ areDependenciesMet(Fields, queue[i]) )
            => Dispatched # {}]_vars

\* the queue with the retryCount of the record id raised by one
Bumped(q, ids) ==
    [i \in 1..Len(q) |->
        IF q[i].id \in ids THEN [q[i] EXCEPT !.retryCount = @ + 1] ELSE q[i]]

\* the queue without the records that have one of the ids
Without(q, ids) == SelectSeq(q, LAMBDA a : a.id \notin ids)

\* the ids of the dispatched records whose executor is of the kind
DispatchedOfKind(kind) ==
    {id \in Dispatched :
        \E i \in 1..Len(queue) : queue[i].id = id /\ Executor(queue[i].type) = kind}

\* C21: a rejected executor call changes only its own record (retryCount
\* one higher, the id out of the processing set and possibly into the
\* failed map) and leaves every other awaited call awaited; a fulfilled
\* call takes its record out of the queue and its id into the completed
\* set; in a tick whose calls settle at once, the records of the calls that
\* fail stay with retryCount one higher, those of the calls that succeed
\* leave the queue for the completed set, and the others are untouched.
C21_FailureIsIsolated ==
    [][/\ lastOp'.op = "reject" =>
             /\ queue' = Bumped(queue, {lastOp'.id})
             /\ processing' = processing \ {lastOp'.id}
             /\ completedActions' = completedActions
             /\ failedActions \subseteq failedActions'
             /\ failedActions' \subseteq failedActions \cup {lastOp'.id}
             /\ inFlight' = BagRemove(inFlight, lastOp'.id)
       /\ lastOp'.op = "fulfil" =>
             /\ queue' = Without(queue, {lastOp'.id})
             /\ completedActions' = completedActions \cup {lastOp'.id}
             /\ failedActions' = failedActions
             /\ inFlight' = BagRemove(inFlight, lastOp'.id)
       /\ lastOp'.op = "tick" =>
             /\ queue' = Bumped(Without(queue, DispatchedOfKind("resolves")),
                                DispatchedOfKind("throws"))
             /\ completedActions' =
                   completedActions \cup DispatchedOfKind("resolves")
             /\ \A id \in DispatchedOfKind("async") :
                   id \in DOMAIN inFlight' /\ id \in processing'
             /\ failedActions' \subseteq failedActions \cup DispatchedOfKind("throws")]_vars

\* one tick has dispatched three records: the call without an executor
\* failed, the one that only logs completed, the third is awaited
C21_Witness ==
    /\ lastOp.op = "tick"
    /\ nextId = 4
    /\ Len(queue) = 2
    /\ Cardinality(completedActions) = 1
    /\ Cardinality(failedActions) = 1
    /\ BagSize(inFlight) = 1
    /\ \E i \in 1..Len(queue) :
          /\ Executor(queue[i].type) = "throws"
          /\ queue[i].retryCount = 1
          /\ queue[i].id \in failedActions
    /\ \E i \in 1..Len(queue) :
          /\ Executor(queue[i].type) = "async"
          /\ queue[i].retryCount = 0
          /\ queue[i].id \in DOMAIN inFlight

\* the step is the success of the executor call for id: an awaited call
\* fulfils, or a call that settles within its tick completes
Succeeds(id) ==
    \/ lastOp'.op = "fulfil" /\ lastOp'.id = id
    \/ lastOp'.op = "tick" /\ id \in DispatchedOfKind("resolves")

\* no record has the id, and no executor call for it is under way
Gone(id) ==
    /\ id \notin QueueIds(queue)
    /\ id \notin processing
    /\ id \notin DOMAIN inFlight

\* C22: the success of the executor call for an id leaves the id out of
\* the queue and of the processing set and in the completed set, and from
\* the moment an id has entered the completed set no executor call is
\* started for it: it stays out of the queue, from which a tick takes the
\* records it dispatches, out of the processing set and out of the calls
\* under way.
C22_CompletedNeverReplayed ==
    /\ [][\A id \in 1..MaxSchedIds :
             Succeeds(id) =>
                 /\ id \notin QueueIds(queue')
                 /\ id \notin processing'
                 /\ id \in completedActions']_vars
    /\ \A id \in 1..MaxSchedIds :
          [](id \in completedActions => []Gone(id))

\* a later tick has dispatched another record while the id of a record
\* whose call succeeded is in the completed set
C22_Witness ==
    /\ lastOp.op = "tick"
    /\ isOnline
    /\ 1 \in completedActions
    /\ Gone(1)
    /\ 2 \in DOMAIN inFlight
    /\ 2 \in processing

\* C23: a record that a failure has brought to retryCount >= maxRetries is,
\* until it is retried, in the failed map, is not among the records of
\* getActions('pending'), and is not counted in getStats().pending, which
\* counts the records that are neither being processed nor failed.
C23_FailedLeavesActivePool ==
    /\ \A i \in 1..Len(queue) :
          (queue[i].retryCount >= 1 /\ queue[i].retryCount >= queue[i].maxRetries) =>
              /\ queue[i].id \in failedActions
              /\ \A k \in 1..Len(getActions(Fields, "pending")) :
                    getActions(Fields, "pending")[k].id # queue[i].id
    /\ getStats(Fields).pending =
          Cardinality({j \in 1..Len(queue) :
                          /\ queue[j].id \notin processing
                          /\ queue[j].id \notin failedActions})

\* C24: the step in which the network comes back online leaves the failed
\* map empty and getStats().failed at 0, whatever was removed from the
\* queue before, and every record of the queue that was in the failed map
\* has retryCount 0 and is neither failed nor being processed.
C24_OnlineClearsFailedMap ==
    [][lastOp'.op = "online" =>
         /\ failedActions' = {}
         /\ getStats(Fields)'.failed = 0
         /\ \A i \in 1..Len(queue') :
               queue'[i].id \in failedActions =>
                   /\ queue'[i].retryCount = 0
                   /\ queue'[i].id \notin failedActions'
                   /\ queue'[i].id \notin processing']_vars

\* C25: storage writes succeeding, every step that changes the records of
\* the queue or the completed set leaves a stored snapshot whose queue and
\* completed ids are those in memory.
C25_SnapshotFollowsEveryMutation ==
    [][(queue' # queue \/ completedActions' # completedActions) =>
         storage' = Snapshot(queue', completedActions')]_vars

\* the step is an enqueue, dequeue or clear that calls saveToStorage()
WritesToStorage ==
    \/ /\ lastOp'.op = "enqueue"
       /\ \/ lastOp'.req.conflictResolution # "skip"
          \/ StructuralDuplicates(queue, lastOp'.req) = {}
    \/ lastOp'.op = "dequeue" /\ lastOp'.id \in QueueIds(queue)
    \/ lastOp'.op = "clear"

\* what the call of the step does and returns when its write succeeds
WithWriteOk ==
    CASE lastOp'.op = "enqueue" ->
           LET r == enqueue(Fields, lastOp'.req, nextId, nextId + 1, now', "ok")
           IN  [st |-> r.st, ret |-> [id |-> r.ret]]
      [] lastOp'.op = "dequeue" ->
           LET r == dequeue(Fields, lastOp'.id, "ok")
           IN  [st |-> r.st, ret |-> [removed |-> r.ret]]
      [] lastOp'.op = "clear" ->
           LET r == clear(Fields, lastOp'.arg, "ok")
           IN  [st |-> r.st, ret |-> [count |-> r.ret]]

\* C26: an enqueue, dequeue or clear whose storage write fails for quota
\* returns what it returns, and leaves the queue, the processing set and
\* the failed map as it leaves them, when the write succeeds; the write is
\* tried once more with an empty completed-id list: if that succeeds the
\* snapshot holds the queue and no completed id, if not the stored item is
\* as it was.
C26_QuotaFailureIsAbsorbed ==
    [][(WritesToStorage /\ lastOp'.w \in {"quota", "quotaTwice"}) =>
         /\ ret' = WithWriteOk.ret
         /\ queue' = WithWriteOk.st.queue
         /\ processing' = WithWriteOk.st.processing
         /\ failedActions' = WithWriteOk.st.failedActions
         /\ lastOp'.w = "quota" => storage' = Snapshot(queue', {})
         /\ lastOp'.w = "quotaTwice" => storage' = storage]_vars

\* a dequeue whose write met the quota once has removed one of two records
\* and stored the other, with no completed id
C26_Witness ==
    /\ lastOp.op = "dequeue"
    /\ lastOp.w = "quota"
    /\ ret.removed
    /\ Len(queue) = 1
    /\ storage = Snapshot(queue, {})
    /\ completedActions = {}

\* the values the interface QueuedAction declares
ActionTypes == {"fluency-record", "session-update", "library-action", "convex-mutation"}

Priorities == {"low", "normal", "high", "critical"}

ConflictResolutions == {"merge", "overwrite", "skip", "manual"}

\* a request, or record, with a field outside what the interface declares
Malformed(a) ==
    \/ a.maxRetries < 0
    \/ a.type \notin ActionTypes
    \/ a.priority \notin Priorities
    \/ a.conflictResolution \notin ConflictResolutions

\* C27: an enqueue with malformed arguments throws to its caller and leaves
\* the queue and the stored snapshot as they were; no record of the queue
\* is malformed.
C27_MalformedEnqueueRejected ==
    [][/\ (lastOp'.op = "enqueue" /\ Malformed(lastOp'.req)) =>
             /\ "thrown" \in DOMAIN ret'
             /\ UNCHANGED <<queue, storage>>
       /\ \A i \in 1..Len(queue') : ~Malformed(queue'[i])]_vars

\* C28: every dependency of a record a tick hands to the executor is, when
\* the tick starts, in the completed set.
C28_DependenciesCompletedFirst ==
    [][lastOp'.op = "tick" =>
         \A i \in 1..Len(queue) :
            queue[i].id \in Dispatched =>
               \A k \in 1..Len(queue[i].dependencies) :
                  queue[i].dependencies[k] \in completedActions]_vars

\* the number of executor calls for id that are awaited
Awaited(bag, id) == IF id \in DOMAIN bag THEN bag[id] ELSE 0

\* C29: stopProcessing() clears the timer and touches nothing else; while
\* the timer is cleared no tick runs, no executor call is started and no id
\* enters the processing set; an executor call that was awaited stays
\* awaited until it settles, and when it does its outcome is applied: a
\* fulfilment takes the record out of the queue and the id into the
\* completed set, a rejection raises the record's retryCount by one.
C29_StopHaltsTicksOnly ==
    [][/\ lastOp'.op = "stopProcessing" =>
             /\ ~processingTimer'
             /\ UNCHANGED <<queue, processing, failedActions, completedActions,
                            storage, inFlight, orphans>>
       /\ ~processingTimer =>
             /\ ~processingTimer'
             /\ lastOp'.op # "tick"
             /\ \A id \in 1..MaxBatchIds :
                   /\ Awaited(inFlight', id) <= Awaited(inFlight, id)
                   /\ Awaited(inFlight', id) < Awaited(inFlight, id) =>
                         /\ lastOp'.op \in {"fulfil", "reject"}
                         /\ lastOp'.id = id
             /\ processing' \subseteq processing
             /\ lastOp'.op = "fulfil" =>
                   /\ queue' = Without(queue, {lastOp'.id})
                   /\ completedActions' = completedActions \cup {lastOp'.id}
                   /\ inFlight' = BagRemove(inFlight, lastOp'.id)
             /\ lastOp'.op = "reject" =>
                   /\ queue' = Bumped(queue, {lastOp'.id})
                   /\ processing' = processing \ {lastOp'.id}
                   /\ inFlight' = BagRemove(inFlight, lastOp'.id)]_vars

\* after stopProcessing() one awaited call has fulfilled and another has
\* been rejected, and a record that is eligible has stayed undispatched
C29_Witness ==
    /\ ~processingTimer
    /\ lastOp.op = "fulfil"
    /\ lastOp.id \in completedActions
    /\ inFlight = EmptyBag
    /\ Len(queue) = 2
    /\ \E i \in 1..Len(queue) :
          /\ Executor(queue[i].type) = "async"
          /\ queue[i].retryCount = 1
          /\ queue[i].id \notin failedActions
    /\ \E i \in 1..Len(queue) :
          /\ queue[i].retryCount = 0
          /\ queue[i].id \notin processing
          /\ queue[i].id \notin failedActions

\* C30: for all arrays existing and incoming, the keys of
\* mergeRecords(mergeRecords(existing, incoming).merged, incoming).merged
\* are, in order, the keys of mergeRecords(existing, incoming).merged.
C30_MergeIsIdempotent ==
    mergeRun.calls = 2 =>
        KeysOf(mergeRun.second.merged) = KeysOf(mergeRun.first.merged)

\* the first merge added one record and skipped another, whose key a
\* different record of existing has; the second merge skipped both
C30_Witness ==
    /\ mergeRun.calls = 2
    /\ Len(mergeRun.first.added) = 1
    /\ Len(mergeRun.first.skipped) = 1
    /\ mergeRun.first.skipped[1] \notin
          {mergeRun.existing[i] : i \in 1..Len(mergeRun.existing)}
    /\ Len(mergeRun.second.skipped) = 2
    /\ mergeRun.second.added = <<>>


\* C31: whatever the two arrays are, existing with repeated keys included,
\* the keys of the records of mergeRecords(existing, incoming).merged are
\* pairwise distinct.
C31_MergedKeysAreDistinct ==
    mergeRun.calls >= 1 =>
        LET keys == KeysOf(mergeRun.first.merged)
        IN  \A i, j \in 1..Len(keys) : keys[i] = keys[j] => i = j


\* the record waits for a retry: it has failed, and fewer times than its
\* maxRetries
Retryable(a) == a.retryCount >= 1 /\ a.retryCount < a.maxRetries

\* the record is neither being executed nor failed, and its dependencies
\* are met
Ready(a) ==
    /\ a.id \notin processing
    /\ a.id \notin failedActions
    /\ areDependenciesMet(Fields, a)

\* the number of records a tick under the connection type may start
FreeSlots(effectiveType) ==
    LET free == maxConcurrentTenths(effectiveType) - 10 * Cardinality(processing)
    IN  IF free > 0 THEN free \div 10 ELSE 0

DependenciesOf(a) == {a.dependencies[k] : k \in 1..Len(a.dependencies)}

\* the two records list each other's id among their dependencies
DependOnEachOther(a, b) ==
    /\ a.id # b.id
    /\ b.id \in DependenciesOf(a)
    /\ a.id \in DependenciesOf(b)

C34_StatsMatchActionLists ==
    /\ getStats(Fields).pending = Len(getActions(Fields, "pending"))
    /\ getStats(Fields).processing = Len(getActions(Fields, "processing"))
    /\ getStats(Fields).failed = Len(getActions(Fields, "failed"))


\* C35: the delay handed to setTimeout after a failed attempt that leaves
\* the record retryable is min(1000 * 2^(retryCount - 1), 30000)
\* milliseconds, retryCount being the record's count after the increment:
\* 1000 ms after the first failure.
C35_BackoffDoublesFromBase ==
    [][lastOp'.op = "reject" =>
          \A j \in 1..Len(queue') :
              (queue'[j].id = lastOp'.id /\ Retryable(queue'[j])) =>
                  timeouts' = <<Min(1000 * 2^(queue'[j].retryCount - 1), 30000)>>]_vars


\* C36: no identifier ever has two executor calls awaited at once, across
\* overlapping ticks, duplicate enqueues, retryFailed, dequeue, clear and
\* completions; and a call is awaited only for an id in the processing
\* set or for a record that has left the queue.
C36_OneCallPerAction ==
    \A id \in DOMAIN inFlight :
        /\ inFlight[id] = 1
        /\ id \in processing \/ id \notin QueueIds(queue)

\* a record whose first executor call failed has been handed to the
\* executor again by a later tick, while the call for a record that was
\* dequeued meanwhile is still awaited
C36_Witness ==
    /\ lastOp.op = "tick"
    /\ orphans # {}
    /\ \E i \in 1..Len(queue) :
          /\ queue[i].retryCount = 1
          /\ queue[i].id \in processing
          /\ Awaited(inFlight, queue[i].id) = 1


\* C37: a tick never hands a record to the executor while it leaves
\* undispatched a record of higher priority that is, when the tick starts,
\* in the queue, not being executed, not failed and with its dependencies
\* met; this also after enqueues that met a duplicate under the overwrite,
\* merge or manual policy.
C37_TickFollowsPriority ==
    [][lastOp'.op = "tick" =>
          \A i, j \in 1..Len(queue) :
              (/\ Ready(queue[i])
               /\ Ready(queue[j])
               /\ priorityOrder(queue[i].priority) > priorityOrder(queue[j].priority)
               /\ queue[j].id \in Dispatched)
              => queue[i].id \in Dispatched]_vars


\* the record has failed as often as its maxRetries allow
Exhausted(a) == a.retryCount >= 1 /\ a.retryCount >= a.maxRetries

\* C38: the failed status survives a reload: a record that is in the failed
\* map and is in the queue after the reload is then still in the failed
\* map, unless it was taken back for retry with retryCount 0 as retryFailed()
\* and the offline-to-online transition do; no tick hands to the executor a
\* record that has failed as often as its maxRetries allow; and no
\* retryCount grows past maxRetries.
C38_FailedSurvivesRestart ==
    [][/\ lastOp'.op = "restart" =>
             \A i \in 1..Len(queue), j \in 1..Len(queue') :
                 (queue[i].id \in failedActions /\ queue'[j].id = queue[i].id) =>
                     \/ queue'[j].id \in failedActions'
                     \/ queue'[j].retryCount = 0
       /\ lastOp'.op = "tick" =>
             \A i \in 1..Len(queue) :
                 queue[i].id \in Dispatched => ~Exhausted(queue[i])
       /\ \A j \in 1..Len(queue') :
             queue'[j].retryCount <= Max(queue'[j].maxRetries, 1)]_vars


\* getStats() reports zero for every count
AllZero ==
    /\ getStats(Fields).pending = 0
    /\ getStats(Fields).processing = 0
    /\ getStats(Fields).failed = 0
    /\ getStats(Fields).completed = 0

\* C39: clear() without a predicate leaves getStats() with every count at
\* zero, and the step that follows it, unless it is an enqueue, leaves the
\* counts at zero, the settling of an executor call that was awaited when
\* clear() ran included.
C39_ClearedStaysZero ==
    [][/\ (lastOp'.op = "clear" /\ lastOp'.arg = "none") => AllZero'
       /\ (lastOp.op = "clear" /\ lastOp.arg = "none" /\ lastOp'.op # "enqueue")
             => AllZero']_vars


\* C40: every type enqueue accepts has an executor: a tick that hands a
\* record of one of the four types to the executor does not fail it by
\* itself, its retryCount stays and its id stays out of the failed map; and
\* when the executor call fulfils, the record leaves the queue and its id
\* is in the completed set.
C40_EveryTypeHasExecutor ==
    [][/\ lastOp'.op = "tick" =>
             \A i \in 1..Len(queue) :
                 (queue[i].type \in ActionTypes /\ queue[i].id \in Dispatched) =>
                     /\ queue[i].id \notin failedActions'
                     /\ \A j \in 1..Len(queue') :
                           queue'[j].id = queue[i].id =>
                               queue'[j].retryCount = queue[i].retryCount
       /\ lastOp'.op = "fulfil" =>
             /\ lastOp'.id \in completedActions'
             /\ lastOp'.id \notin QueueIds(queue')]_vars

=============================================================================
